---- MODULE Spec2Model ----
(***************************************************************************)
(* Model of system_transport.py: Passenger.compute_fare, the               *)
(* TransportFareCalculator batch, the validated-input helpers and main.    *)
(*                                                                         *)
(* Numbers.  The program computes with Python floats; the model computes   *)
(* with exact decimals in fixed point:                                     *)
(*   distance_km  is counted in hundredths of a kilometre,                 *)
(*   a rate       is counted in whole pesos per kilometre,                 *)
(*   a fare       is counted in thousandths of a peso,                     *)
(* so that rate * distance_km is in hundredths of a peso and the three     *)
(* multipliers 0.5, 0.7 and 1 are the integer factors 5, 7 and 10.         *)
(* Binary rounding and overflow of floats are outside the model.           *)
(***************************************************************************)
EXTENDS Integers, Sequences, FiniteSets, TLC

VARIABLES
    passengers,      \* the Passenger objects created so far; index = identity
    calculators,     \* the TransportFareCalculator objects created so far
    ret,             \* <<v>>: value returned by the last compute_fare call
    writer,          \* history: who last wrote passengers[p].final_fare
    runs,            \* history: process_all invocations of each calculator
    pc,              \* main: position in the function body
    num_passengers,  \* main: local num_passengers (<<>> while unassigned)
    i,               \* main: loop variable
    name,            \* main: local name      (<<>> while unassigned)
    age,             \* main: local age       (<<>> while unassigned)
    distance_km,     \* main: local distance_km (<<>> while unassigned)
    calculator,      \* main: local calculator, an index of calculators, or 0
    screen,          \* what print has written that the claims are about
    calls,           \* history: the method calls main has made, in order
    retries          \* history: invalid entries in a row at the current prompt

vars == <<passengers, calculators, ret, writer, runs, pc, num_passengers, i,
          name, age, distance_km, calculator, screen, calls, retries>>

heapVars == <<passengers, calculators, writer, runs>>
mainVars == <<pc, num_passengers, i, name, age, distance_km, calculator,
              screen, calls, retries>>

----------------------------------------------------------------------------
(* Bounds of the model *)

MaxPassengers == 2     \* Passenger objects a client of the classes creates
MaxCalculators == 2    \* TransportFareCalculator objects it creates
MaxLen == 2            \* add_passenger calls per calculator
MaxStreak == 2         \* process_all invocations counted per calculator
MaxAge == 62           \* ages 0..MaxAge given to compute_fare alone
MaxDistance == 3       \* distances 0..MaxDistance given to compute_fare alone
MaxRate == 3           \* rates 1..MaxRate given to compute_fare alone
MaxN == 3              \* largest passenger count entered in main
MaxRetries == 2        \* invalid entries in a row that are counted

(* Program constant *)
BASE_RATE_PER_KM == 500

Km(x) == x * 100        \* x kilometres as a distance_km value
Pesos(x) == x * 1000    \* x pesos as a fare value

Min(a, b) == IF a < b THEN a ELSE b

Range(s) == {s[k] : k \in 1..Len(s)}

----------------------------------------------------------------------------
(* class Passenger *)

\* Passenger.__init__ storing the default-rate full fare at construction
Passenger_prepaid(n, a, d) ==
    [name |-> n, age |-> a, distance_km |-> d,
     final_fare |-> BASE_RATE_PER_KM * d * 10]

Passenger(n, a, d) ==
    [name |-> n, age |-> a, distance_km |-> d, final_fare |-> 0]

\* compute_fare with the child band shifted to age <= 12
compute_fare_child_at_12(self, base_rate_per_km) ==
    LET base_fare == base_rate_per_km * self.distance_km
        final_fare == IF self.age <= 12 THEN base_fare * 5
                      ELSE IF self.age > 60 THEN base_fare * 7
                      ELSE base_fare * 10
    IN  [self |-> [self EXCEPT !.final_fare = final_fare],
         result |-> final_fare]

\* compute_fare applying the discount to the fare already stored
compute_fare_accumulating(self, base_rate_per_km) ==
    LET base_fare == base_rate_per_km * self.distance_km
        final_fare == self.final_fare +
                      (IF self.age < 12 THEN base_fare * 5
                       ELSE IF self.age > 60 THEN base_fare * 7
                       ELSE base_fare * 10)
    IN  [self |-> [self EXCEPT !.final_fare = final_fare],
         result |-> final_fare]

\* compute_fare taking a flat 5000-peso senior discount off the base fare
compute_fare_flat_discount(self, base_rate_per_km) ==
    LET base_fare == base_rate_per_km * self.distance_km
        final_fare == IF self.age < 12 THEN base_fare * 5
                      ELSE IF self.age > 60 THEN base_fare * 10 - Pesos(5000)
                      ELSE base_fare * 10
    IN  [self |-> [self EXCEPT !.final_fare = final_fare],
         result |-> final_fare]

\* Passenger.compute_fare: the updated object and the returned value
compute_fare(self, base_rate_per_km) ==
    LET base_fare == base_rate_per_km * self.distance_km
        final_fare == IF self.age < 12 THEN base_fare * 5
                      ELSE IF self.age > 60 THEN base_fare * 7
                      ELSE base_fare * 10
    IN  [self |-> [self EXCEPT !.final_fare = final_fare],
         result |-> final_fare]

----------------------------------------------------------------------------
(* class TransportFareCalculator *)

TransportFareCalculator(base_rate_per_km) ==
    [base_rate_per_km |-> base_rate_per_km, passengers |-> <<>>]

\* add_passenger inserting at the front of the list
add_passenger_front(self, passenger) ==
    [self EXCEPT !.passengers = <<passenger>> \o @]

add_passenger(self, passenger) ==
    [self EXCEPT !.passengers = Append(@, passenger)]

\* process_all stopping before the last stored passenger
RECURSIVE process_skip_last(_, _, _)
process_skip_last(heap, self, k) ==
    IF k >= Len(self.passengers) THEN heap
    ELSE LET p == self.passengers[k]
         IN  process_skip_last(
                 [heap EXCEPT ![p] = compute_fare(@, self.base_rate_per_km).self],
                 self, k + 1)

\* process_all calling compute_fare() with its default rate
RECURSIVE process_default_rate(_, _, _)
process_default_rate(heap, self, k) ==
    IF k > Len(self.passengers) THEN heap
    ELSE LET p == self.passengers[k]
         IN  process_default_rate(
                 [heap EXCEPT ![p] = compute_fare(@, BASE_RATE_PER_KM).self],
                 self, k + 1)

\* process_all: the heap after the loop has visited positions k.. of the list
RECURSIVE process_from(_, _, _)
process_from(heap, self, k) ==
    IF k > Len(self.passengers) THEN heap
    ELSE LET p == self.passengers[k]
         IN  process_from(
                 [heap EXCEPT ![p] = compute_fare(@, self.base_rate_per_km).self],
                 self, k + 1)

process_all(heap, self) == process_from(heap, self, 1)

\* sum(p.final_fare for p in self.passengers), from position k on
RECURSIVE sum_from(_, _, _)
sum_from(heap, self, k) ==
    IF k > Len(self.passengers) THEN 0
    ELSE heap[self.passengers[k]].final_fare + sum_from(heap, self, k + 1)

total_collected(heap, self) == sum_from(heap, self, 1)

----------------------------------------------------------------------------
(* Values a client of the classes passes *)

Names == {"Ana"}
Riders == {<<10, Km(20)>>, <<65, Km(10)>>, <<30, Km(15)>>}   \* <<age, distance_km>>
Rates == {BASE_RATE_PER_KM, 100}

NoWriter == <<"none", 0>>
DirectCall == <<"direct", 0>>
Batch(b) == <<"batch", b>>

NoRuns == [ever |-> FALSE, streak |-> 0, fares |-> <<>>]

Fares(heap, self) ==
    [k \in 1..Len(self.passengers) |-> heap[self.passengers[k]].final_fare]

NoScreen == [line |-> "", summary |-> <<>>]

MainIdle ==
    /\ pc = "idle"
    /\ num_passengers = <<>>
    /\ i = 0
    /\ name = <<>>
    /\ age = <<>>
    /\ distance_km = <<>>
    /\ calculator = 0
    /\ screen = NoScreen
    /\ calls = <<>>
    /\ retries = 0

----------------------------------------------------------------------------
(* Spec: a client of the two classes calling their methods in any order *)

Init ==
    /\ passengers = <<>>
    /\ calculators = <<>>
    /\ writer = <<>>
    /\ runs = <<>>
    /\ ret = <<>>
    /\ MainIdle

NewPassenger(n, a, d) ==
    /\ Len(passengers) < MaxPassengers
    /\ passengers' = Append(passengers, Passenger(n, a, d))
    /\ writer' = Append(writer, NoWriter)
    /\ UNCHANGED <<calculators, runs, ret, mainVars>>

NewCalculator(r) ==
    /\ Len(calculators) < MaxCalculators
    /\ calculators' = Append(calculators, TransportFareCalculator(r))
    /\ runs' = Append(runs, NoRuns)
    /\ UNCHANGED <<passengers, writer, ret, mainVars>>

\* calculators[b].add_passenger(passengers[p])
Add(b, p) ==
    /\ calculators' = [calculators EXCEPT ![b] = add_passenger(@, p)]
    /\ runs' = [runs EXCEPT ![b].streak = 0, ![b].fares = <<>>]

AddPassenger(b, p) ==
    /\ Len(calculators[b].passengers) < MaxLen
    /\ Add(b, p)
    /\ UNCHANGED <<passengers, writer, ret, mainVars>>

\* calculators[b].process_all()
Process(b) ==
    /\ passengers' = process_all(passengers, calculators[b])
    /\ writer' = [p \in DOMAIN writer |->
                    IF p \in Range(calculators[b].passengers)
                    THEN Batch(b) ELSE writer[p]]
    /\ runs' = [runs EXCEPT ![b] =
                    [ever |-> TRUE,
                     streak |-> Min(@.streak + 1, MaxStreak),
                     fares |-> Fares(passengers', calculators[b])]]

ProcessAll(b) ==
    /\ Process(b)
    /\ UNCHANGED <<calculators, ret, mainVars>>

\* the client calls compute_fare on a Passenger it holds and drops the result
ClientComputeFare(p, r) ==
    /\ passengers' = [passengers EXCEPT ![p] = compute_fare(@, r).self]
    /\ writer' = [writer EXCEPT ![p] = DirectCall]
    /\ UNCHANGED <<calculators, runs, ret, mainVars>>

Next ==
    \/ \E n \in Names, r \in Riders : NewPassenger(n, r[1], r[2])
    \/ \E r \in Rates : NewCalculator(r)
    \/ \E b \in DOMAIN calculators, p \in DOMAIN passengers : AddPassenger(b, p)
    \/ \E b \in DOMAIN calculators : ProcessAll(b)
    \/ \E p \in DOMAIN passengers, r \in Rates : ClientComputeFare(p, r)

Spec == Init /\ [][Next]_vars

----------------------------------------------------------------------------
(* FareSpec: compute_fare alone, on one Passenger of any age and distance *)

FareInit ==
    /\ \E a \in 0..MaxAge, d \in 0..MaxDistance :
           passengers = <<Passenger("Ana", a, d)>>
    /\ calculators = <<>>
    /\ writer = <<NoWriter>>
    /\ runs = <<>>
    /\ ret = <<>>
    /\ MainIdle

\* one call of compute_fare, its result kept
ComputeFare(r) ==
    /\ passengers' = [passengers EXCEPT ![1] = compute_fare(@, r).self]
    /\ ret' = <<compute_fare(passengers[1], r).result>>
    /\ UNCHANGED <<calculators, writer, runs, mainVars>>

FareNext == \E r \in (1..MaxRate) \cup {BASE_RATE_PER_KM} : ComputeFare(r)

FareSpec == FareInit /\ [][FareNext]_vars

----------------------------------------------------------------------------
(* Text.  A line of input is a sequence of one-character strings. *)

Whitespace == {" "}

RECURSIVE lstrip(_)
lstrip(s) == IF s # <<>> /\ Head(s) \in Whitespace THEN lstrip(Tail(s)) ELSE s

RECURSIVE rstrip(_)
rstrip(s) ==
    IF s # <<>> /\ s[Len(s)] \in Whitespace
    THEN rstrip(SubSeq(s, 1, Len(s) - 1)) ELSE s

\* str.strip()
strip(s) == rstrip(lstrip(s))

DigitValue ==
    ("0" :> 0) @@ ("1" :> 1) @@ ("2" :> 2) @@ ("3" :> 3) @@ ("4" :> 4) @@
    ("5" :> 5) @@ ("6" :> 6) @@ ("7" :> 7) @@ ("8" :> 8) @@ ("9" :> 9)

AllDigits(s) == \A k \in 1..Len(s) : s[k] \in DOMAIN DigitValue

RECURSIVE DecimalValue(_)
DecimalValue(s) ==
    IF s = <<>> THEN 0
    ELSE DecimalValue(SubSeq(s, 1, Len(s) - 1)) * 10 + DigitValue[s[Len(s)]]

Signed(s) == s # <<>> /\ Head(s) \in {"+", "-"}
Unsigned(s) == IF Signed(s) THEN Tail(s) ELSE s
Sign(s) == IF s # <<>> /\ Head(s) = "-" THEN 0 - 1 ELSE 1

\* int(raw): a signed run of decimal digits, or ValueError (ok = FALSE)
int(raw) ==
    LET s == strip(raw)
        digits == Unsigned(s)
    IN  IF digits # <<>> /\ AllDigits(digits)
        THEN [ok |-> TRUE, value |-> Sign(s) * DecimalValue(digits)]
        ELSE [ok |-> FALSE, value |-> 0]

\* position of the first "." of s, or Len(s) + 1
RECURSIVE PointAt(_, _)
PointAt(s, k) ==
    IF k > Len(s) \/ s[k] = "." THEN k ELSE PointAt(s, k + 1)

\* float(raw) for the forms [sign] digits [. digits] and nan, as a distance in
\* hundredths (at most two decimals are representable), or ValueError
float(raw) ==
    LET s == strip(raw)
        body == Unsigned(s)
        dot == PointAt(body, 1)
        whole == SubSeq(body, 1, dot - 1)
        frac == SubSeq(body, dot + 1, Len(body))
        cents == SubSeq(frac \o <<"0", "0">>, 1, 2)
    IN  IF body = <<"n", "a", "n">>
        THEN [ok |-> TRUE, nan |-> TRUE, value |-> 0]
        ELSE IF /\ Len(whole) + Len(frac) > 0
                /\ AllDigits(whole) /\ AllDigits(frac)
        THEN [ok |-> TRUE, nan |-> FALSE,
              value |-> Sign(s) * (DecimalValue(whole) * 100 + DecimalValue(cents))]
        ELSE [ok |-> FALSE, nan |-> FALSE, value |-> 0]

----------------------------------------------------------------------------
(* The input helpers: one turn of the while True loop on the line entered.  *)
(* returned = FALSE: printed is shown and the loop prompts again.           *)

Return(v) == [returned |-> TRUE, value |-> v, printed |-> ""]
Again(msg) == [returned |-> FALSE, value |-> 0, printed |-> msg]

get_non_empty_string(line) ==
    LET value == strip(line)
    IN  IF value # <<>> THEN Return(value)
        ELSE Again("El valor no puede estar vacio. Intente de nuevo.")

\* get_positive_int without the value >= 0 test
get_positive_int_unchecked(line) ==
    LET raw == strip(line)
        parsed == int(raw)
    IN  IF ~parsed.ok
        THEN Again("Entrada invalida. Ingrese un numero entero valido.")
        ELSE Return(parsed.value)

get_positive_int(line) ==
    LET raw == strip(line)
        parsed == int(raw)
    IN  IF ~parsed.ok
        THEN Again("Entrada invalida. Ingrese un numero entero valido.")
        ELSE IF parsed.value >= 0 THEN Return(parsed.value)
        ELSE Again("Ingrese un numero entero no negativo.")

get_non_negative_float(line) ==
    LET raw == strip(line)
        parsed == float(raw)
    IN  IF ~parsed.ok
        THEN Again("Entrada invalida. Ingrese un numero valido (ej: 12.5).")
        ELSE IF ~parsed.nan /\ parsed.value >= 0 THEN Return(parsed.value)
        ELSE Again("Ingrese un valor numerico no negativo.")

----------------------------------------------------------------------------
(* print_summary *)

\* f"{x:,.0f}": x rounded to whole pesos, halves to the even neighbour
format_fare(x) ==
    LET q == x \div 1000
        r == x % 1000
    IN  IF r > 500 \/ (r = 500 /\ q % 2 = 1) THEN q + 1 ELSE q

print_summary(heap, self) ==
    IF self.passengers = <<>>
    THEN <<"No passengers processed.">>
    ELSE [k \in 1..Len(self.passengers) |->
             LET p == heap[self.passengers[k]]
             IN  [name |-> p.name, age |-> p.age, distance_km |-> p.distance_km,
                  fare_str |-> format_fare(p.final_fare)]]
         \o <<[total_str |-> format_fare(total_collected(heap, self))]>>

----------------------------------------------------------------------------
(* MainSpec: one run of main, the user typing any of the lines below *)

Digit(n) == CHOOSE c \in DOMAIN DigitValue : DigitValue[c] = n

CountLines ==
    {<<Digit(n)>> : n \in 0..MaxN}
    \cup {<<" ", "1", " ">>, <<"+", "2">>, <<"-", "0">>}
    \cup {<<>>, <<"x">>, <<"-", "1">>, <<"2", ".", "5">>}
NameLines == {<<" ", "A", "n", "a", " ">>, <<>>, <<" ", " ">>}
AgeLines ==
    {<<"1", "0">>, <<"6", "5">>, <<"3", "0">>}
    \cup {<<"-", "5">>, <<"x">>, <<"6", ".", "5">>}
DistanceLines ==
    {<<"2", "0">>, <<"1", "0", ".", "0">>, <<"1", "5">>, <<"0", ".", "0", "1">>}
    \cup {<<"-", "2">>, <<"n", "a", "n">>, <<"k", "m">>, <<>>}

MainInit ==
    /\ passengers = <<>>
    /\ calculators = <<>>
    /\ writer = <<>>
    /\ runs = <<>>
    /\ ret = <<>>
    /\ pc = "count"
    /\ num_passengers = <<>>
    /\ i = 0
    /\ name = <<>>
    /\ age = <<>>
    /\ distance_km = <<>>
    /\ calculator = 0
    /\ screen = NoScreen
    /\ calls = <<>>
    /\ retries = 0

\* screen.line is what the helper printed in answer to the latest entry

\* the entry is valid: nothing is printed and the helper returns
Accept ==
    /\ screen' = [screen EXCEPT !.line = ""]
    /\ retries' = 0

\* the prompt is shown again after an invalid entry
Reprompt(r) ==
    /\ screen' = [screen EXCEPT !.line = r.printed]
    /\ retries' = Min(retries + 1, MaxRetries)

\* the N = 0 exit taken for negative counts only
NothingToProcess_negative(n) == n < 0

\* if num_passengers == 0: ... return
NothingToProcess(n) == n = 0

\* main going from the loop straight to print_summary
LoopExit_no_process == "summary"

\* after the loop main calls calculator.process_all()
LoopExit == "process"

ReadCount(line) ==
    /\ pc = "count"
    /\ LET r == get_positive_int(line)
       IN  IF r.returned
           THEN /\ r.value <= MaxN
                /\ num_passengers' = <<r.value>>
                /\ retries' = 0
                /\ IF NothingToProcess(r.value)
                   THEN /\ screen' = [screen EXCEPT !.line =
                               "No hay pasajeros para procesar. Fin del programa."]
                        /\ pc' = "done"
                   ELSE /\ screen' = [screen EXCEPT !.line = ""]
                        /\ pc' = "create"
           ELSE /\ Reprompt(r)
                /\ UNCHANGED <<num_passengers, pc>>
    /\ UNCHANGED <<heapVars, ret, i, name, age, distance_km, calculator, calls>>

CreateCalculator ==
    /\ pc = "create"
    /\ calculators' = Append(calculators, TransportFareCalculator(BASE_RATE_PER_KM))
    /\ runs' = Append(runs, NoRuns)
    /\ calculator' = Len(calculators) + 1
    /\ pc' = "for"
    /\ UNCHANGED <<passengers, writer, ret, num_passengers, i, name, age,
                   distance_km, screen, calls, retries>>

\* for i in range(1, num_passengers + 1)
ForLoop ==
    /\ pc = "for"
    /\ IF i < num_passengers[1]
       THEN i' = i + 1 /\ pc' = "name"
       ELSE i' = i /\ pc' = LoopExit
    /\ UNCHANGED <<heapVars, ret, num_passengers, name, age, distance_km,
                   calculator, screen, calls, retries>>

ReadName(line) ==
    /\ pc = "name"
    /\ LET r == get_non_empty_string(line)
       IN  IF r.returned
           THEN name' = <<r.value>> /\ pc' = "age" /\ Accept
           ELSE Reprompt(r) /\ UNCHANGED <<name, pc>>
    /\ UNCHANGED <<heapVars, ret, num_passengers, i, age, distance_km,
                   calculator, calls>>

ReadAge(line) ==
    /\ pc = "age"
    /\ LET r == get_positive_int(line)
       IN  IF r.returned
           THEN age' = <<r.value>> /\ pc' = "distance" /\ Accept
           ELSE Reprompt(r) /\ UNCHANGED <<age, pc>>
    /\ UNCHANGED <<heapVars, ret, num_passengers, i, name, distance_km,
                   calculator, calls>>

ReadDistance(line) ==
    /\ pc = "distance"
    /\ LET r == get_non_negative_float(line)
       IN  IF r.returned
           THEN distance_km' = <<r.value>> /\ pc' = "add" /\ Accept
           ELSE Reprompt(r) /\ UNCHANGED <<distance_km, pc>>
    /\ UNCHANGED <<heapVars, ret, num_passengers, i, name, age, calculator, calls>>

\* passenger = Passenger(...); calculator.add_passenger(passenger)
AddToCalculator ==
    /\ pc = "add"
    /\ passengers' = Append(passengers, Passenger(name[1], age[1], distance_km[1]))
    /\ writer' = Append(writer, NoWriter)
    /\ Add(calculator, Len(passengers) + 1)
    /\ calls' = Append(calls, "add_passenger")
    /\ pc' = "for"
    /\ UNCHANGED <<ret, num_passengers, i, name, age, distance_km, calculator,
                   screen, retries>>

CallProcessAll ==
    /\ pc = "process"
    /\ Process(calculator)
    /\ calls' = Append(calls, "process_all")
    /\ pc' = "summary"
    /\ UNCHANGED <<calculators, ret, num_passengers, i, name, age, distance_km,
                   calculator, screen, retries>>

CallPrintSummary ==
    /\ pc = "summary"
    /\ screen' = [screen EXCEPT
                    !.summary = print_summary(passengers, calculators[calculator])]
    /\ calls' = Append(calls, "print_summary")
    /\ pc' = "done"
    /\ UNCHANGED <<heapVars, ret, num_passengers, i, name, age, distance_km,
                   calculator, retries>>

MainNext ==
    \/ \E line \in CountLines : ReadCount(line)
    \/ CreateCalculator
    \/ ForLoop
    \/ \E line \in NameLines : ReadName(line)
    \/ \E line \in AgeLines : ReadAge(line)
    \/ \E line \in DistanceLines : ReadDistance(line)
    \/ AddToCalculator
    \/ CallProcessAll
    \/ CallPrintSummary

MainSpec == MainInit /\ [][MainNext]_vars

----------------------------------------------------------------------------
(* The fare rule as the specification states it (section 4.1), in          *)
(* thousandths of a peso: 0.5 * r * d, 0.7 * r * d or r * d.               *)

FareRule(d, a, r) ==
    IF a < 12 THEN 5 * r * d
    ELSE IF a > 60 THEN 7 * r * d
    ELSE 10 * r * d

RuleOf(p, r) == FareRule(p.distance_km, p.age, r)

RECURSIVE RuleSum(_, _, _)
RuleSum(heap, self, k) ==
    IF k > Len(self.passengers) THEN 0
    ELSE RuleOf(heap[self.passengers[k]], self.base_rate_per_km)
         + RuleSum(heap, self, k + 1)

FareRates == (1..MaxRate) \cup {BASE_RATE_PER_KM}

----------------------------------------------------------------------------
\* C1: for every distance d >= 0, rate r > 0 and age a >= 0, compute_fare
\* returns, and stores in final_fare, 0.5*r*d when a < 12, 0.7*r*d when
\* a > 60 and r*d otherwise; ages 11 and 61 are discounted, ages 12 and 60
\* pay the full fare.
C1_BandCorrectness ==
    [][\A r \in FareRates :
          ComputeFare(r) =>
              LET a == passengers[1].age
                  d == passengers[1].distance_km
                  v == passengers'[1].final_fare
              IN  /\ ret' = <<v>>
                  /\ a < 12 => v = 5 * r * d
                  /\ a > 60 => v = 7 * r * d
                  /\ (a >= 12 /\ a <= 60) => v = 10 * r * d
                  /\ a = 11 => v = 5 * r * d
                  /\ a = 61 => v = 7 * r * d
                  /\ a \in {12, 60} => v = 10 * r * d]_vars

C1_Witness ==
    /\ calculators = <<>>
    /\ Len(passengers) = 1
    /\ passengers[1].age = 61
    /\ passengers[1].distance_km = 3
    /\ passengers[1].final_fare = 7 * BASE_RATE_PER_KM * 3
    /\ ret = <<7 * BASE_RATE_PER_KM * 3>>

----------------------------------------------------------------------------
\* C2: right after process_all() on a batch holding any sequence of added
\* records, every stored record's fare equals FareRule of its distance, its
\* age and the batch's base rate, and total_collected() is the sum of them.
C2_ProcessAllPost ==
    [][\A b \in DOMAIN calculators :
          ProcessAll(b) =>
              LET self == calculators'[b]
              IN  /\ \A k \in 1..Len(self.passengers) :
                        passengers'[self.passengers[k]].final_fare =
                            RuleOf(passengers'[self.passengers[k]],
                                   self.base_rate_per_km)
                  /\ total_collected(passengers', self) =
                         RuleSum(passengers', self, 1)]_vars

C2_Witness ==
    \E b \in DOMAIN calculators :
        LET self == calculators[b]
        IN  /\ self.base_rate_per_km = 500
            /\ runs[b].streak >= 1
            /\ Len(self.passengers) = 2
            /\ passengers[self.passengers[1]].age = 10
            /\ passengers[self.passengers[1]].distance_km = Km(20)
            /\ passengers[self.passengers[1]].final_fare = Pesos(5000)
            /\ passengers[self.passengers[2]].age = 65
            /\ passengers[self.passengers[2]].distance_km = Km(10)
            /\ passengers[self.passengers[2]].final_fare = Pesos(3500)
            /\ total_collected(passengers, self) = Pesos(8500)

----------------------------------------------------------------------------
----------------------------------------------------------------------------
\* C4: process_all() is idempotent: invoked again with the base rate, the
\* records and the record list unchanged since its previous invocation, it
\* leaves every record's fare, and total_collected(), as that invocation
\* left them.
C4_Idempotent ==
    [][\A b \in DOMAIN calculators :
          (ProcessAll(b) /\ runs[b].streak >= 1) =>
              /\ Fares(passengers', calculators'[b]) = runs[b].fares
              /\ runs'[b].fares = runs[b].fares
              /\ total_collected(passengers', calculators'[b]) =
                     RuleSum(passengers, calculators[b], 1)]_vars

C4_Witness ==
    \E b \in DOMAIN calculators :
        /\ runs[b].streak = 2
        /\ Len(calculators[b].passengers) = 2
        /\ Fares(passengers, calculators[b]) = runs[b].fares
        /\ \A k \in 1..2 : runs[b].fares[k] > 0

----------------------------------------------------------------------------
\* C5: for distance >= 0, age >= 0 and rate > 0 the fare compute_fare
\* computes is >= 0, so every final_fare and every total_collected() is
\* non-negative in every reachable state.
C5_NonNegative ==
    /\ \A p \in DOMAIN passengers : passengers[p].final_fare >= 0
    /\ \A b \in DOMAIN calculators :
          total_collected(passengers, calculators[b]) >= 0

C5_Witness ==
    \E b \in DOMAIN calculators :
        /\ calculators[b].base_rate_per_km = 100
        /\ runs[b].streak >= 1
        /\ \E p \in Range(calculators[b].passengers) :
              passengers[p].age > 60 /\ passengers[p].final_fare > 0
        /\ total_collected(passengers, calculators[b]) > 0

----------------------------------------------------------------------------
\* C6: add_passenger appends the record at the end of the batch's list: the
\* length grows by exactly 1, the records stored before keep their order,
\* and their fields, the batch's base rate and the other batches are left
\* unchanged.
C6_AddFrame ==
    [][\A b \in DOMAIN calculators, p \in DOMAIN passengers :
          AddPassenger(b, p) =>
              LET old == calculators[b].passengers
                  new == calculators'[b].passengers
              IN  /\ Len(new) = Len(old) + 1
                  /\ new[Len(new)] = p
                  /\ SubSeq(new, 1, Len(old)) = old
                  /\ passengers' = passengers
                  /\ calculators'[b].base_rate_per_km =
                         calculators[b].base_rate_per_km
                  /\ \A c \in DOMAIN calculators \ {b} :
                        calculators'[c] = calculators[c]]_vars

C6_Witness ==
    \E b \in DOMAIN calculators :
        /\ calculators[b].passengers = <<2, 1>>
        /\ runs[b].ever
        /\ runs[b].streak = 0
        /\ writer[2] = Batch(b)
        /\ passengers[2].final_fare =
               RuleOf(passengers[2], calculators[b].base_rate_per_km)
        /\ writer[1] = NoWriter

----------------------------------------------------------------------------
----------------------------------------------------------------------------
\* C8: when the passenger count entered in main is 0, no batch is created,
\* no record is added, process_all and print_summary are never invoked, and
\* main returns normally.
C8_ZeroCount ==
    num_passengers = <<0>> =>
        /\ pc = "done"
        /\ calculator = 0
        /\ calculators = <<>>
        /\ passengers = <<>>
        /\ calls = <<>>
        /\ screen.summary = <<>>

C8_Witness ==
    /\ num_passengers = <<0>>
    /\ pc = "done"
    /\ screen.line = "No hay pasajeros para procesar. Fin del programa."
    /\ retries = 0

----------------------------------------------------------------------------
(* What the specification calls invalid input (section 7) *)

Blank(line) == \A k \in 1..Len(line) : line[k] \in Whitespace
BadInt(line) == ~int(line).ok \/ int(line).value < 0
BadFloat(line) == ~float(line).ok \/ float(line).nan \/ float(line).value < 0

BadCountLines == {line \in CountLines : BadInt(line)}
BlankNameLines == {line \in NameLines : Blank(line)}
BadAgeLines == {line \in AgeLines : BadInt(line)}
BadDistanceLines == {line \in DistanceLines : BadFloat(line)}

\* the helper printed a message and main is where it was, with what it had
PromptedAgain ==
    /\ pc' = pc
    /\ screen'.line # ""
    /\ UNCHANGED <<passengers, calculators, num_passengers, i, name, age,
                   distance_km, calls>>

RecordsValid ==
    \A p \in DOMAIN passengers :
        /\ ~Blank(passengers[p].name)
        /\ passengers[p].age >= 0
        /\ passengers[p].distance_km >= 0

\* C9: invalid input never reaches the core: on a blank name, a non-integer
\* or negative count or age, or a non-numeric or negative distance, the
\* helper prints a message and prompts again, adding no record and raising
\* nothing, however many invalid entries come in a row; every record main
\* adds has a non-empty name, age >= 0 and distance_km >= 0.
C9_InvalidInputRejected ==
    /\ []RecordsValid
    /\ [][/\ \A line \in BadCountLines : ReadCount(line) => PromptedAgain
          /\ \A line \in BlankNameLines : ReadName(line) => PromptedAgain
          /\ \A line \in BadAgeLines : ReadAge(line) => PromptedAgain
          /\ \A line \in BadDistanceLines : ReadDistance(line) => PromptedAgain
         ]_vars

C9_Witness ==
    /\ pc = "distance"
    /\ retries = MaxRetries
    /\ screen.line = "Ingrese un valor numerico no negativo."
    /\ BadCountLines # {} /\ BlankNameLines # {}
    /\ BadAgeLines # {} /\ BadDistanceLines # {}
    /\ i = 2
    /\ Len(passengers) = 1
    /\ calculators[calculator].passengers = <<1>>

----------------------------------------------------------------------------
ExpectedCalls(n) ==
    [k \in 1..n |-> "add_passenger"] \o <<"process_all", "print_summary">>

IsPrefix(s, t) == Len(s) <= Len(t) /\ s = SubSeq(t, 1, Len(s))

CallOrder ==
    (num_passengers # <<>> /\ num_passengers[1] > 0) =>
        /\ IsPrefix(calls, ExpectedCalls(num_passengers[1]))
        /\ pc = "done" => calls = ExpectedCalls(num_passengers[1])

\* x thousandths of a peso as the nearest whole number of pesos, a tie going
\* to the even one
WholePesos(x) ==
    LET q == x \div 1000
        Off(n) == IF 1000 * n >= x THEN 1000 * n - x ELSE x - 1000 * n
    IN  CHOOSE n \in {q, q + 1} :
            \A m \in {q, q + 1} \ {n} :
                Off(n) < Off(m) \/ (Off(n) = Off(m) /\ n % 2 = 0)

Displayed(Shows(_, _)) ==
    screen.summary # <<>> =>
        LET self == calculators[calculator]
            n == Len(self.passengers)
        IN  /\ Len(screen.summary) = n + 1
            /\ \A k \in 1..n :
                  /\ writer[self.passengers[k]] = Batch(calculator)
                  /\ Shows(screen.summary[k].fare_str,
                           RuleOf(passengers[self.passengers[k]],
                                  BASE_RATE_PER_KM))
            /\ Shows(screen.summary[n + 1].total_str,
                     RuleSum(passengers, self, 1))

ShowsExactly(shown, fare) == Pesos(shown) = fare
ShowsRounded(shown, fare) == shown = WholePesos(fare)

\* C10 as claimed: in a run of main with N > 0 the calls are N add_passenger,
\* then one process_all, then print_summary, and every displayed fare equals
\* FareRule(distance_km, age, 500.0), none being an uncomputed default.
C10_Original == CallOrder /\ Displayed(ShowsExactly)

\* C10 as amended: in a run of main with N > 0 the calls are N add_passenger,
\* then one process_all, then print_summary; every displayed fare is
\* FareRule(distance_km, age, 500.0) rounded to whole pesos (halves to the
\* even peso), the displayed total is the sum of the fares rounded the same
\* way, and no record is displayed before process_all has computed its fare.
C10_OrderAndDisplay == CallOrder /\ Displayed(ShowsRounded)

C10_Witness ==
    /\ pc = "done"
    /\ num_passengers = <<3>>
    /\ calls = ExpectedCalls(3)
    /\ Len(screen.summary) = 4
    /\ screen.summary[1] = [name |-> <<"A", "n", "a">>, age |-> 10,
                            distance_km |-> Km(20), fare_str |-> 5000]
    /\ screen.summary[2].age = 65
    /\ screen.summary[2].fare_str = 3500
    /\ screen.summary[3].age = 30
    /\ screen.summary[3].fare_str = 7500
    /\ screen.summary[4] = [total_str |-> 16000]

====
